---- MODULE Spec2Model ----
(***************************************************************************)
(* Model of the image uploader backend (src/Backend/server.js): the three  *)
(* request handlers POST /api/upload, GET /api/images and                  *)
(* DELETE /api/images/:id, the multer stage in front of the upload         *)
(* handler, the Images table and the upload directory.                     *)
(*                                                                         *)
(* A string is a sequence of tokens, a path a sequence of segments (the    *)
(* text between two '/'), so "/uploads/images/x" is                        *)
(* << <<>>, <<"uploads">>, <<"images">>, x >>.                             *)
(*                                                                         *)
(* Handlers are async functions: a handler runs without interruption up to *)
(* its next await, the store executes the statement at some later point,   *)
(* and the handler resumes later still, so requests interleave at every    *)
(* await.  A stretch of handler code that touches neither the table nor    *)
(* the disk commutes with the steps of the other requests, and is joined   *)
(* to the store's step next to it: the lookup of a delete and the SELECT   *)
(* of a listing execute in the step that issues them, and the DELETE is    *)
(* answered in the step that executes it.  The INSERT keeps its three      *)
(* steps: what lies between its execution and the upload's response is     *)
(* what the upload claims are about.                                       *)
(***************************************************************************)
EXTENDS Integers, Sequences, FiniteSets, Bags, TLC

\* Number of connections: the requests that can be in flight at once.
MaxReqs == 2
\* Cap on the IDENTITY counter of Images.id (the number of successful inserts).
MaxId == 2

VARIABLES
  rows,        \* table Images: set of [id, image_path]
  nextId,      \* next value of the IDENTITY(1,1) column
  disk,        \* paths of the files under baseDir
  inflight,    \* bag of the requests in flight: position and locals of each
  sent,        \* the response sent by the last step, if it sent one
  alive,       \* the node process is running
  generated,   \* history: filenames generated so far
  collided,    \* history: some filename was generated twice
  delPassed,   \* history: ids whose delete passed the file-removal step
  n200,        \* history: number of uploads answered 200
  deleted,     \* history: [id, path] of the rows whose delete was answered 200
  env,         \* process.env: PORT, DB_USER, DB_PASSWORD, DB_SERVER, DB_NAME
  pkg,         \* process.pkg: the program runs as the packaged executable
  configFile,  \* config.json under baseDir
  tableExists, \* dbo.Images exists in the database
  boot         \* initializeServer: its position and locals, and its log

vars == <<rows, nextId, disk, inflight, sent, alive, generated, collided,
          delPassed, n200, deleted, env, pkg, configFile, tableExists, boot>>

hist == <<generated, collided, delPassed, n200, deleted>>

\* what the request handlers read and write, and what the startup does
serving == <<rows, nextId, disk, inflight, sent, alive, generated, collided,
             delPassed, n200, deleted>>

startup == <<env, pkg, configFile, tableExists, boot>>

-----------------------------------------------------------------------------
(* Paths: path.resolve, the directories, the stored image path.             *)

EmptySeg == <<>>

BaseDir == <<EmptySeg, <<"app">>>>

IsAbsolute(p) == p # <<>> /\ Head(p) = EmptySeg

PathResolve(base, p) == IF IsAbsolute(p) THEN p ELSE base \o p

imageUploadDirectory == PathResolve(BaseDir, <<<<"uploads">>, <<"images">>>>)

\* A destination that is not the directory the stored paths name.
FilePathBaseDir(filename) == BaseDir \o <<filename>>

\* multer's diskStorage: req.file.path = join(destination, filename)
FilePath(filename) == imageUploadDirectory \o <<filename>>

\* `/uploads/images/${req.file.filename}`
ImagePath(filename) == <<EmptySeg, <<"uploads">>, <<"images">>, filename>>

\* imagePath.startsWith('/') ? imagePath.substring(1) : imagePath
RelativePath(imagePath) ==
  IF IsAbsolute(imagePath) THEN Tail(imagePath) ELSE imagePath

FullPath(imagePath) == PathResolve(BaseDir, RelativePath(imagePath))

-----------------------------------------------------------------------------
(* Filename generation and the multer filters.                              *)

Times == {"1747221180043"}
Rands == {"1", "2"}
Exts == {<<".jpg">>}

\* `${Date.now()}-${Math.round(Math.random() * 1e9)}${path.extname(originalname)}`
uniqueName(now, rnd, ext) == <<now, "-", rnd>> \o ext

allowedTypes == {"image/jpeg", "image/png", "image/gif"}

\* A filter that lets every type through.
fileFilterAll(mimetype) == TRUE

fileFilter(mimetype) == mimetype \in allowedTypes

FileSizeLimit == 5 * 1024 * 1024

\* A multer without the limits option.
OverLimitNever(size) == FALSE

OverLimit(size) == size > FileSizeLimit

\* The multipart field image of a request: absent, or a file with its declared
\* type and its size.
NoPart == [present |-> FALSE, mimetype |-> "", size |-> 0]

FilePart(mimetype, size) == [present |-> TRUE, mimetype |-> mimetype, size |-> size]

Parts == { NoPart,
           FilePart("image/png", 12345),
           FilePart("image/png", FileSizeLimit + 1),
           FilePart("text/plain", 12345),
           FilePart("image/webp", FileSizeLimit + 1) }

\* What the file system does to multer's stream: nothing wrong, or the open
\* fails and no file is created.
IoOutcomes == {"ok", "EOPEN"}

-----------------------------------------------------------------------------
(* parseInt on the :id route parameter.                                     *)

DigitVal(c) ==
  CASE c = "0" -> 0 [] c = "1" -> 1 [] c = "2" -> 2 [] c = "3" -> 3
    [] c = "4" -> 4 [] c = "5" -> 5 [] c = "6" -> 6 [] c = "7" -> 7
    [] c = "8" -> 8 [] c = "9" -> 9 [] c = "a" -> 10 [] c = "b" -> 11
    [] c = "c" -> 12 [] c = "d" -> 13 [] c = "e" -> 14 [] c = "f" -> 15
    [] OTHER -> 99

IsDigit(c, radix) == DigitVal(c) < radix

RECURSIVE SkipWhite(_)
SkipWhite(s) == IF s # <<>> /\ Head(s) = " " THEN SkipWhite(Tail(s)) ELSE s

RECURSIVE DigitPrefix(_, _)
DigitPrefix(s, radix) ==
  IF s # <<>> /\ IsDigit(Head(s), radix)
  THEN <<Head(s)>> \o DigitPrefix(Tail(s), radix)
  ELSE <<>>

RECURSIVE DigitsValue(_, _, _)
DigitsValue(s, radix, acc) ==
  IF s = <<>> THEN acc
  ELSE DigitsValue(Tail(s), radix, acc * radix + DigitVal(Head(s)))

NaN == [nan |-> TRUE, val |-> 0]

\* parseInt(string) with no radix argument
ParseInt(str) ==
  LET s1   == SkipWhite(str)
      neg  == s1 # <<>> /\ Head(s1) = "-"
      s2   == IF s1 # <<>> /\ Head(s1) \in {"-", "+"} THEN Tail(s1) ELSE s1
      hex  == Len(s2) >= 2 /\ s2[1] = "0" /\ s2[2] \in {"x", "X"}
      s3   == IF hex THEN Tail(Tail(s2)) ELSE s2
      rad  == IF hex THEN 16 ELSE 10
      ds   == DigitPrefix(s3, rad)
      v    == DigitsValue(ds, rad, 0)
  IN IF ds = <<>> THEN NaN
     ELSE [nan |-> FALSE, val |-> IF neg THEN 0 - v ELSE v]

isNaN(n) == n.nan

\* A string that consists of decimal digits only.
WhollyNumeric(str) ==
  str # <<>> /\ \A i \in 1..Len(str) : IsDigit(str[i], 10)

IdParams == { <<"1">>, <<"2">>, <<"i", "n", "v", "a", "l", "i", "d">>,
              <<"1", "a", "b", "c">>, <<"0">>, <<"-", "1">> }

-----------------------------------------------------------------------------
(* Values of the startup: JavaScript values, the environment, config.json.  *)

Undefined == [type |-> "undefined", nan |-> FALSE, val |-> 0, str |-> <<>>]

JsonNull == [type |-> "null", nan |-> FALSE, val |-> 0, str |-> <<>>]

Num(n) == [type |-> "number", nan |-> FALSE, val |-> n, str |-> <<>>]

NumNaN == [type |-> "number", nan |-> TRUE, val |-> 0, str |-> <<>>]

Str(s) == [type |-> "string", nan |-> FALSE, val |-> 0, str |-> s]

\* the number parseInt returns, as a value
Number(r) == IF r.nan THEN NumNaN ELSE Num(r.val)

\* if (v), !v
Truthy(v) ==
  CASE v.type = "number" -> ~v.nan /\ v.val # 0
    [] v.type = "string" -> v.str # <<>>
    [] OTHER -> FALSE

\* answer.toLowerCase()
ToLowerCase(str) ==
  [i \in 1..Len(str) |-> CASE str[i] = "Y" -> "y" [] str[i] = "N" -> "n"
                            [] OTHER -> str[i]]

\* let config = {}
EmptyObject == [user |-> Undefined, password |-> Undefined, server |-> Undefined,
                database |-> Undefined, port |-> Undefined]

\* JSON.stringify(config, null, 2): a field that is undefined is left out, a
\* number that is NaN is written as null
JsonStringify(obj) ==
  [f \in DOMAIN obj |-> IF obj[f].type = "number" /\ obj[f].nan THEN JsonNull
                        ELSE obj[f]]

\* JSON.parse(text): null for the text null, and of an object the fields, a
\* field the text leaves out being undefined
JsonParse(text) ==
  IF text = JsonNull THEN JsonNull ELSE [f \in DOMAIN EmptyObject |-> text[f]]

\* config.json: absent, or a text that parses to an object or does not parse
NoConfigFile == [exists |-> FALSE, parses |-> FALSE, text |-> EmptyObject]

Unparseable == [exists |-> TRUE, parses |-> FALSE, text |-> EmptyObject]

\* fs.writeFileSync(configPath, JSON.stringify(config, null, 2))
WrittenConfig(config) ==
  [exists |-> TRUE, parses |-> TRUE, text |-> JsonStringify(config)]

DbObject(user, password, server, database) ==
  [EmptyObject EXCEPT !.user = user, !.password = password,
                      !.server = server, !.database = database]

\* a config.json left by an earlier run or written by hand
FileDb == DbObject(Str(<<"fileuser">>), Str(<<"filepw">>), Str(<<"filehost">>),
                   Str(<<"filedb">>))

ConfigTexts ==
  { FileDb,
    [FileDb EXCEPT !.port = Num(5000)],
    [FileDb EXCEPT !.port = Num(0)],
    [FileDb EXCEPT !.port = Num(70000)],
    [FileDb EXCEPT !.password = Undefined],
    [EmptyObject EXCEPT !.port = Num(5000)],
    JsonNull }

ConfigFiles ==
  {NoConfigFile, Unparseable}
    \cup {[exists |-> TRUE, parses |-> TRUE, text |-> t] : t \in ConfigTexts}

\* process.env after dotenv: a variable that is not set reads as undefined
\* and one set to nothing as the empty string, which the program tells apart
\* nowhere; both are the empty string here
PortVars == { <<>>, <<"4", "0", "0", "0">>, <<"0">>, <<"7", "0", "0", "0", "0">>,
              <<"a", "b", "c">> }

DbVars ==
  { [DB_USER |-> <<"envuser">>, DB_PASSWORD |-> <<"envpw">>,
     DB_SERVER |-> <<"envhost">>, DB_NAME |-> <<"envdb">>],
    [DB_USER |-> <<"envuser">>, DB_PASSWORD |-> <<>>,
     DB_SERVER |-> <<"envhost">>, DB_NAME |-> <<"envdb">>],
    [DB_USER |-> <<>>, DB_PASSWORD |-> <<>>, DB_SERVER |-> <<>>,
     DB_NAME |-> <<>>] }

Envs ==
  {[PORT |-> pv, DB_USER |-> d.DB_USER, DB_PASSWORD |-> d.DB_PASSWORD,
    DB_SERVER |-> d.DB_SERVER, DB_NAME |-> d.DB_NAME] : pv \in PortVars, d \in DbVars}

\* what is typed at the prompts
DbAnswers ==
  { [user |-> <<"typeduser">>, password |-> <<"typedpw">>,
     server |-> <<"typedhost">>, database |-> <<"typeddb">>],
    [user |-> <<"typeduser">>, password |-> <<"typedpw">>,
     server |-> <<>>, database |-> <<"typeddb">>] }

YesNoAnswers == { <<"y">>, <<"Y">>, <<"n">>, <<>> }

PortAnswers == { <<"8", "0", "8", "0">>, <<"0">>, <<"7", "0", "0", "0", "0">>,
                 <<"a", "b", "c">>, <<"8", "0", "p">> }

\* initializeServer's position and locals: the resolved database config and
\* where it came from, the resolved port, the prompts asked with their answers,
\* the objects handed to writeFileSync, the calls made to the database and to
\* the listener, the state of the connection pool, what a SIGINT meets (the
\* default disposition, the handler, or the handler and the one it armed),
\* the exit of the process, the error caught, and of the run before this one
\* where its database config came from and whether it created the table
NoPrev == [source |-> "none", dbConfig |-> EmptyObject, saved |-> FALSE,
           created |-> FALSE]

BootStart(prev) ==
  [pc |-> "start", dbConfig |-> EmptyObject, source |-> "none", saved |-> FALSE,
   port |-> Undefined, asked |-> <<>>, answers |-> <<>>, writes |-> <<>>,
   calls |-> <<>>, pool |-> "none", sigint |-> "default", exited |-> FALSE,
   exitCode |-> 0, error |-> "", prev |-> prev]

ServingEnv == [PORT |-> <<>>, DB_USER |-> <<>>, DB_PASSWORD |-> <<>>,
               DB_SERVER |-> <<>>, DB_NAME |-> <<>>]

ListeningBoot ==
  [BootStart(NoPrev) EXCEPT !.pc = "listening", !.dbConfig = FileDb,
                            !.source = "file", !.port = Num(3001),
                            !.calls = <<"sql.connect", "SELECT OBJECT_ID",
                                        "app.listen">>,
                            !.pool = "open", !.sigint = "handler"]

-----------------------------------------------------------------------------
(* Requests and responses.                                                  *)

NoFile == [filename |-> <<>>, path |-> <<>>]

\* The members of a response body.  No handler sets a member id: the result
\* of the INSERT is not read, and id stays 0, the body without that member.
NoBody == [message |-> "", error |-> "", path |-> <<>>, filename |-> <<>>,
           recordset |-> <<>>, id |-> 0]

NoRes == [ok |-> FALSE, recordset |-> <<>>]

\* A request: what it carries (part, param), where its handler stands (pc)
\* and the handler's locals.  stmts and fsops log the statements the request
\* has issued to the pool and the fs calls made for it; rowId is the id the
\* store gave the request's row, which the program never reads.
NoReq == [kind |-> "none", pc |-> "idle", part |-> NoPart, file |-> NoFile,
          imagePath |-> <<>>, param |-> <<>>, id |-> 0, qres |-> NoRes,
          stmts |-> {}, fsops |-> {}, rowId |-> 0]

NoSent == [status |-> 0, body |-> NoBody, req |-> NoReq]

InFlight == BagToSet(inflight)

\* the rows of a set in the order of the clustered primary key
RECURSIVE SortById(_)
SortById(S) ==
  IF S = {} THEN <<>>
  ELSE LET m == CHOOSE x \in S : \A y \in S : x.id <= y.id
       IN <<m>> \o SortById(S \ {m})

Ids(recordset) == {recordset[i].id : i \in 1..Len(recordset)}

Init ==
  /\ rows = {}
  /\ nextId = 1
  /\ disk = {}
  /\ inflight = EmptyBag
  /\ sent = NoSent
  /\ alive = TRUE
  /\ generated = {}
  /\ collided = FALSE
  /\ delPassed = {}
  /\ n200 = 0
  /\ deleted = {}
  /\ env = ServingEnv
  /\ pkg = FALSE
  /\ configFile = WrittenConfig(FileDb)
  /\ tableExists = TRUE
  /\ boot = ListeningBoot

\* The requests are served once initializeServer has come to listen: here it
\* did so with config.json in place, no PORT set, on the default port.
\* a request arrives while the process runs and a connection is free
Accepting == alive /\ BagCardinality(inflight) < MaxReqs

\* res.status(code).json(body) by the handler of request q (was p in flight):
\* the response is sent and the request is over
Respond(p, q, code, body) ==
  /\ sent' = [status |-> code, body |-> body, req |-> q]
  /\ inflight' = inflight (-) SetToBag({p})

\* the handler of request p goes on as q and sends nothing
Continue(p, q) ==
  /\ sent' = NoSent
  /\ inflight' = (inflight (-) SetToBag({p})) (+) SetToBag({q})

ErrorBody(msg) == [NoBody EXCEPT !.error = msg]

\* app.use((err, req, res, next) => res.status(500).json({ error: err.message }))
ErrorMiddleware(p, q, msg) == Respond(p, q, 500, ErrorBody(msg))

\* An exception leaves an async handler: the promise is rejected, nothing
\* handles the rejection, no response is sent and node ends the process.
Threw(p, q) ==
  /\ Continue(p, [q EXCEPT !.pc = "threw"])
  /\ alive' = FALSE

-----------------------------------------------------------------------------
(* POST /api/upload                                                         *)

\* The handler proper, entered with req.file set: up to the await of the INSERT.
UploadHandler(q) ==
  [q EXCEPT !.imagePath = ImagePath(q.file.filename),
            !.stmts = @ \cup {"INSERT"},
            !.pc = "insert_wait"]

\* multer stores an accepted file under destination/filename: when the stream
\* cannot be opened multer passes the error on, over the size limit
\* it removes what it wrote and passes LIMIT_FILE_SIZE on, and otherwise the
\* handler runs with req.file set.
UploadStore(q, now, rnd, ext, io) ==
  LET name == uniqueName(now, rnd, ext)
      path == FilePath(name)
      qw   == [q EXCEPT !.fsops = @ \cup {"createWriteStream"},
                        !.file = [filename |-> name, path |-> path]]
  IN /\ generated' = generated \cup {name}
     /\ collided' = (collided \/ name \in generated)
     /\ IF io = "EOPEN"
        THEN /\ disk' = disk
             /\ ErrorMiddleware(NoReq, qw, "open failed")
        ELSE IF OverLimit(q.part.size)
        THEN /\ disk' = disk \ {path}
             /\ ErrorMiddleware(NoReq, [qw EXCEPT !.fsops = @ \cup {"unlink"}],
                                "File too large")
        ELSE /\ disk' = disk \cup {path}
             /\ Continue(NoReq, UploadHandler(qw))

\* A handler without the check of req.file: it goes on to the INSERT with
\* whatever multer left it.
UploadReceiveNoCheck(part) ==
  /\ Accepting
  /\ LET q == [NoReq EXCEPT !.kind = "upload", !.part = part]
     IN IF ~part.present \/ ~fileFilter(part.mimetype)
        THEN /\ Continue(NoReq, UploadHandler(q))
             /\ UNCHANGED <<disk, generated, collided>>
        ELSE \E now \in Times, rnd \in Rands, ext \in Exts, io \in IoOutcomes :
               UploadStore(q, now, rnd, ext, io)
  /\ UNCHANGED <<rows, nextId, alive, delPassed, n200, deleted>>
  /\ UNCHANGED startup

\* upload.single('image') and the handler behind it.  A request without a file,
\* or with one the filter refuses, reaches the handler with no req.file:
\* if (!req.file) return res.status(400).json({ error: 'No file uploaded' }).
UploadReceive(part) ==
  /\ Accepting
  /\ LET q == [NoReq EXCEPT !.kind = "upload", !.part = part]
     IN IF ~part.present \/ ~fileFilter(part.mimetype)
        THEN /\ Respond(NoReq, q, 400, ErrorBody("No file uploaded"))
             /\ UNCHANGED <<disk, generated, collided>>
        ELSE \E now \in Times, rnd \in Rands, ext \in Exts, io \in IoOutcomes :
               UploadStore(q, now, rnd, ext, io)
  /\ UNCHANGED <<rows, nextId, alive, delPassed, n200, deleted>>
  /\ UNCHANGED startup

\* An id column without IDENTITY: every row gets the same id.
DbInsertSameId(p) ==
  /\ p.kind = "upload" /\ p.pc = "insert_wait"
  /\ \E ok \in BOOLEAN :
       IF ok
       THEN /\ nextId <= MaxId
            /\ rows' = rows \cup {[id |-> nextId, image_path |-> p.imagePath]}
            /\ nextId' = nextId
            /\ Continue(p, [p EXCEPT !.pc = "insert_ret", !.rowId = nextId,
                                     !.qres = [NoRes EXCEPT !.ok = TRUE]])
       ELSE /\ UNCHANGED <<rows, nextId>>
            /\ Continue(p, [p EXCEPT !.pc = "insert_ret", !.qres = NoRes])
  /\ UNCHANGED <<disk, alive, hist>>
  /\ UNCHANGED startup

\* INSERT INTO Images (image_path) VALUES (@path), executed by the store
DbInsert(p) ==
  /\ p.kind = "upload" /\ p.pc = "insert_wait"
  /\ \E ok \in BOOLEAN :
       IF ok
       THEN /\ nextId <= MaxId
            /\ rows' = rows \cup {[id |-> nextId, image_path |-> p.imagePath]}
            /\ nextId' = nextId + 1
            /\ Continue(p, [p EXCEPT !.pc = "insert_ret", !.rowId = nextId,
                                     !.qres = [NoRes EXCEPT !.ok = TRUE]])
       ELSE /\ UNCHANGED <<rows, nextId>>
            /\ Continue(p, [p EXCEPT !.pc = "insert_ret", !.qres = NoRes])
  /\ UNCHANGED <<disk, alive, hist>>
  /\ UNCHANGED startup

\* A catch block that answers 500 and leaves the file where it is.
UploadRollbackNoUnlink(p, unlinkOk) ==
  /\ disk' = disk
  /\ Respond(p, p, 500, ErrorBody("DB insert failed"))
  /\ alive' = alive

\* catch (err): fs.unlinkSync(req.file.path), then the 500.  unlinkSync throws
\* when the file is gone or cannot be removed, and the exception leaves the
\* handler.
UploadRollback(p, unlinkOk) ==
  LET q == [p EXCEPT !.fsops = @ \cup {"unlinkSync"}]
  IN IF q.file.path \in disk /\ unlinkOk
     THEN /\ disk' = disk \ {q.file.path}
          /\ Respond(p, q, 500, ErrorBody("DB insert failed"))
          /\ alive' = alive
     ELSE /\ disk' = disk
          /\ Threw(p, q)

\* res.json({ message, path: imagePath, filename: req.file.filename })
UploadSuccess(p) ==
  Respond(p, p, 200, [NoBody EXCEPT !.message = "Image uploaded successfully",
                                    !.path = p.imagePath,
                                    !.filename = p.file.filename])

\* A handler that answers 200 whatever became of the INSERT.
UploadResumeUnchecked(p) ==
  /\ alive
  /\ p.kind = "upload" /\ p.pc = "insert_ret"
  /\ UploadSuccess(p)
  /\ n200' = n200 + 1
  /\ UNCHANGED <<rows, nextId, disk, alive, generated, collided, delPassed,
                 deleted>>
  /\ UNCHANGED startup

\* After the await: the success response, or the catch block.
UploadResume(p) ==
  /\ alive
  /\ p.kind = "upload" /\ p.pc = "insert_ret"
  /\ IF p.qres.ok
     THEN /\ UploadSuccess(p)
          /\ n200' = n200 + 1
          /\ UNCHANGED <<disk, alive>>
     ELSE /\ \E unlinkOk \in BOOLEAN : UploadRollback(p, unlinkOk)
          /\ n200' = n200
  /\ UNCHANGED <<rows, nextId, generated, collided, delPassed, deleted>>
  /\ UNCHANGED startup

-----------------------------------------------------------------------------
(* GET /api/images                                                          *)

\* SELECT * FROM Images
SelectAll == SortById(rows)

\* A listing answered from a copy of the rows taken before the last INSERT.
ListRequestStale ==
  /\ Accepting
  /\ \E ok \in BOOLEAN :
       LET stale == SortById({w \in rows : w.id + 1 < nextId})
           q == [NoReq EXCEPT !.kind = "list", !.stmts = @ \cup {"SELECT_ALL"},
                             !.qres = IF ok THEN [ok |-> TRUE, recordset |-> stale]
                                      ELSE NoRes]
       IN IF ok
          THEN Respond(NoReq, q, 200, [NoBody EXCEPT !.recordset = q.qres.recordset])
          ELSE Respond(NoReq, q, 500, ErrorBody("DB fetch failed"))
  /\ UNCHANGED <<rows, nextId, disk, alive, hist>>
  /\ UNCHANGED startup

\* A catch block that hides the failure: the listing is answered 200 with no
\* records.
ListRequestSwallow ==
  /\ Accepting
  /\ \E ok \in BOOLEAN :
       LET q == [NoReq EXCEPT !.kind = "list", !.stmts = @ \cup {"SELECT_ALL"},
                             !.qres = IF ok THEN [ok |-> TRUE,
                                                  recordset |-> SelectAll]
                                      ELSE NoRes]
       IN Respond(NoReq, q, 200, [NoBody EXCEPT !.recordset = q.qres.recordset])
  /\ UNCHANGED <<rows, nextId, disk, alive, hist>>
  /\ UNCHANGED startup

\* The whole handler: the SELECT, then res.json(result.recordset) or the catch.
ListRequest ==
  /\ Accepting
  /\ \E ok \in BOOLEAN :
       LET q == [NoReq EXCEPT !.kind = "list", !.stmts = @ \cup {"SELECT_ALL"},
                             !.qres = IF ok THEN [ok |-> TRUE,
                                                  recordset |-> SelectAll]
                                      ELSE NoRes]
       IN IF ok
          THEN Respond(NoReq, q, 200, [NoBody EXCEPT !.recordset = q.qres.recordset])
          ELSE Respond(NoReq, q, 500, ErrorBody("DB fetch failed"))
  /\ UNCHANGED <<rows, nextId, disk, alive, hist>>
  /\ UNCHANGED startup

-----------------------------------------------------------------------------
(* DELETE /api/images/:id                                                   *)

\* a lookup that is not restricted to the id
SelectByIdAny(id) == SortById(rows)

\* SELECT image_path FROM Images WHERE id = @id
SelectById(id) == SortById({w \in rows : w.id = id})

\* the lookup, executed by the store
DeleteLookup(q, id) ==
  \E ok \in BOOLEAN :
    Continue(NoReq, [q EXCEPT !.id = id, !.pc = "lookup_ret",
                              !.stmts = @ \cup {"SELECT_ID"},
                              !.qres = IF ok THEN [ok |-> TRUE,
                                                   recordset |-> SelectById(id)]
                                       ELSE NoRes])

\* parseInt(req.params.id), the isNaN check, and the lookup
DeleteReceive(param) ==
  /\ Accepting
  /\ LET q  == [NoReq EXCEPT !.kind = "delete", !.param = param]
         id == ParseInt(param)
     IN IF isNaN(id)
        THEN Respond(NoReq, q, 400, ErrorBody("Invalid ID format"))
        ELSE DeleteLookup(q, id.val)
  /\ UNCHANGED <<rows, nextId, disk, alive, hist>>
  /\ UNCHANGED startup

\* A handler that goes on to the DELETE and leaves the file where it is.
DeleteFileAndRowKeepFile(p, unlinkOk) ==
  /\ disk' = disk
  /\ Continue(p, [p EXCEPT !.imagePath = p.qres.recordset[1].image_path,
                           !.pc = "delete_wait", !.qres = NoRes,
                           !.stmts = @ \cup {"DELETE"}])
  /\ delPassed' = delPassed \cup {p.id}

\* A handler that goes on to the DELETE when the removal of the file fails.
DeleteFileAndRowAnyway(p, unlinkOk) ==
  LET imagePath == p.qres.recordset[1].image_path
      fullPath  == FullPath(imagePath)
      q1        == [p EXCEPT !.imagePath = imagePath,
                             !.fsops = @ \cup {"existsSync"}]
      q2        == [q1 EXCEPT !.fsops = @ \cup {"unlinkSync"}]
      issue(x)  == [x EXCEPT !.pc = "delete_wait", !.qres = NoRes,
                             !.stmts = @ \cup {"DELETE"}]
  IN /\ disk' = IF unlinkOk THEN disk \ {fullPath} ELSE disk
     /\ Continue(p, issue(IF fullPath \in disk THEN q2 ELSE q1))
     /\ delPassed' = delPassed \cup {p.id}

\* A handler that gives up when the file of the row is not on disk.
DeleteFileAndRowStrict(p, unlinkOk) ==
  LET imagePath == p.qres.recordset[1].image_path
      fullPath  == FullPath(imagePath)
      q1        == [p EXCEPT !.imagePath = imagePath,
                             !.fsops = @ \cup {"existsSync"}]
      q2        == [q1 EXCEPT !.fsops = @ \cup {"unlinkSync"}]
      issue(x)  == [x EXCEPT !.pc = "delete_wait", !.qres = NoRes,
                             !.stmts = @ \cup {"DELETE"}]
  IN IF fullPath \in disk /\ unlinkOk
     THEN /\ disk' = disk \ {fullPath}
          /\ Continue(p, issue(q2))
          /\ delPassed' = delPassed \cup {p.id}
     ELSE /\ disk' = disk
          /\ Respond(p, q2, 500, ErrorBody("Delete failed"))
          /\ delPassed' = delPassed

\* if (fs.existsSync(fullPath)) fs.unlinkSync(fullPath); else console.warn;
\* then the DELETE up to its await.  A throwing unlinkSync ends in the catch.
DeleteFileAndRow(p, unlinkOk) ==
  LET imagePath == p.qres.recordset[1].image_path
      fullPath  == FullPath(imagePath)
      q1        == [p EXCEPT !.imagePath = imagePath,
                             !.fsops = @ \cup {"existsSync"}]
      q2        == [q1 EXCEPT !.fsops = @ \cup {"unlinkSync"}]
      issue(x)  == [x EXCEPT !.pc = "delete_wait", !.qres = NoRes,
                             !.stmts = @ \cup {"DELETE"}]
  IN IF fullPath \in disk
     THEN IF unlinkOk
          THEN /\ disk' = disk \ {fullPath}
               /\ Continue(p, issue(q2))
               /\ delPassed' = delPassed \cup {p.id}
          ELSE /\ disk' = disk
               /\ Respond(p, q2, 500, ErrorBody("Delete failed"))
               /\ delPassed' = delPassed
     ELSE /\ disk' = disk
          /\ Continue(p, issue(q1))
          /\ delPassed' = delPassed \cup {p.id}

\* A handler without the check of recordset.length: whatever the lookup found,
\* it goes on to the DELETE.
DeleteAfterLookupNoCheck(p) ==
  /\ alive
  /\ p.kind = "delete" /\ p.pc = "lookup_ret"
  /\ IF ~p.qres.ok
     THEN /\ Respond(p, p, 500, ErrorBody("Delete failed"))
          /\ UNCHANGED <<disk, delPassed>>
     ELSE IF Len(p.qres.recordset) = 0
     THEN /\ Continue(p, [p EXCEPT !.pc = "delete_wait", !.qres = NoRes,
                                   !.stmts = @ \cup {"DELETE"}])
          /\ UNCHANGED <<disk, delPassed>>
     ELSE \E unlinkOk \in BOOLEAN : DeleteFileAndRow(p, unlinkOk)
  /\ UNCHANGED <<rows, nextId, alive, generated, collided, n200, deleted>>
  /\ UNCHANGED startup

\* After the lookup's await: a failed lookup, not found, or the removal.
DeleteAfterLookup(p) ==
  /\ alive
  /\ p.kind = "delete" /\ p.pc = "lookup_ret"
  /\ IF ~p.qres.ok
     THEN /\ Respond(p, p, 500, ErrorBody("Delete failed"))
          /\ UNCHANGED <<disk, delPassed>>
     ELSE IF Len(p.qres.recordset) = 0
     THEN /\ Respond(p, p, 404, ErrorBody("Image not found"))
          /\ UNCHANGED <<disk, delPassed>>
     ELSE \E unlinkOk \in BOOLEAN : DeleteFileAndRow(p, unlinkOk)
  /\ UNCHANGED <<rows, nextId, alive, generated, collided, n200, deleted>>
  /\ UNCHANGED startup

\* DELETE FROM Images WHERE id = @id, executed by the store, and the handler
\* behind its await: res.json({ message: 'Image deleted' }), or the catch.  A
\* statement issued before the process ended is still executed.
DbDelete(p) ==
  /\ p.kind = "delete" /\ p.pc = "delete_wait"
  /\ \E ok \in BOOLEAN :
       /\ rows' = IF ok THEN {w \in rows : w.id # p.id} ELSE rows
       /\ IF ~alive
          THEN /\ Continue(p, [p EXCEPT !.pc = "lost"])
               /\ deleted' = deleted
          ELSE IF ok
          THEN /\ Respond(p, [p EXCEPT !.qres = [NoRes EXCEPT !.ok = TRUE]], 200,
                          [NoBody EXCEPT !.message = "Image deleted"])
               /\ deleted' = deleted \cup {[id |-> p.id, path |-> FullPath(p.imagePath)]}
          ELSE /\ Respond(p, p, 500, ErrorBody("Delete failed"))
               /\ deleted' = deleted
  /\ UNCHANGED <<nextId, disk, alive, generated, collided, delPassed, n200>>
  /\ UNCHANGED startup

Next ==
  \/ \E part \in Parts : UploadReceive(part)
  \/ ListRequest
  \/ \E param \in IdParams : DeleteReceive(param)
  \/ \E p \in InFlight : DbInsert(p)
  \/ \E p \in InFlight : UploadResume(p)
  \/ \E p \in InFlight : DeleteAfterLookup(p)
  \/ \E p \in InFlight : DbDelete(p)

Spec == Init /\ [][Next]_vars

-----------------------------------------------------------------------------
(* initializeServer: the startup of the process.                            *)

\* let poolConnection = null: the variable of the function body, which is the
\* one the catch block names.  Nothing assigns to it: the pool is held by the
\* const poolConnection declared inside the try block.
poolConnection == JsonNull

\* the function is in its catch block: the error is logged, the pool is closed
\* if (poolConnection && poolConnection.connected), and the process stays
\* without a listener
Fail(b, msg) ==
  [b EXCEPT !.pc = "failed", !.error = msg,
            !.pool = IF Truthy(poolConnection) /\ @ = "open" THEN "closed" ELSE @]

\* this run of initializeServer has made this call
Called(name) == \E i \in DOMAIN boot.calls : boot.calls[i] = name

\* await prompt(question)
Ask(b, question, answer) ==
  [b EXCEPT !.asked = Append(@, question), !.answers = Append(@, answer)]

\* the config built from the four environment variables
EnvConfig ==
  DbObject(Str(env.DB_USER), Str(env.DB_PASSWORD), Str(env.DB_SERVER),
           Str(env.DB_NAME))

\* getDbConfig, third way: the four prompts and the question whether to save
PromptDbConfig(a, save, writeOk) ==
  LET config == DbObject(Str(a.user), Str(a.password), Str(a.server),
                         Str(a.database))
      b4     == Ask(Ask(Ask(Ask(boot, "Username", a.user),
                            "Password", a.password),
                        "Server", a.server),
                    "Database name", a.database)
      b5     == [Ask(b4, "Save", save) EXCEPT !.dbConfig = config,
                                              !.source = "prompt"]
  IN IF ToLowerCase(save) = <<"y">>
     THEN IF writeOk
          THEN /\ configFile' = WrittenConfig(config)
               /\ boot' = [b5 EXCEPT !.pc = "dbconfig", !.saved = TRUE,
                                     !.writes = Append(@, config)]
          ELSE /\ configFile' = configFile
               /\ boot' = Fail([b5 EXCEPT !.writes = Append(@, config)],
                               "writeFileSync")
     ELSE /\ configFile' = configFile
          /\ boot' = [b5 EXCEPT !.pc = "dbconfig"]

\* A resolution that looks at the environment before it looks at config.json.
GetDbConfigEnvFirst ==
  /\ boot.pc = "start"
  /\ IF /\ env.DB_USER # <<>> /\ env.DB_PASSWORD # <<>>
        /\ env.DB_SERVER # <<>> /\ env.DB_NAME # <<>>
     THEN \E writeOk \in BOOLEAN :
            /\ configFile' = IF writeOk THEN WrittenConfig(EnvConfig)
                             ELSE configFile
            /\ boot' = [boot EXCEPT !.pc = "dbconfig", !.source = "env",
                                    !.dbConfig = EnvConfig, !.saved = writeOk,
                                    !.writes = Append(@, EnvConfig)]
     ELSE IF configFile.exists /\ configFile.parses
     THEN /\ boot' = [boot EXCEPT !.pc = "dbconfig", !.source = "file",
                                  !.dbConfig = JsonParse(configFile.text)]
          /\ configFile' = configFile
     ELSE \E a \in DbAnswers, save \in YesNoAnswers, writeOk \in BOOLEAN :
            PromptDbConfig(a, save, writeOk)
  /\ UNCHANGED <<env, pkg, tableExists>>
  /\ UNCHANGED serving

\* A resolution that uses the environment and does not save what it built.
GetDbConfigNoSave ==
  /\ boot.pc = "start"
  /\ IF configFile.exists /\ configFile.parses
     THEN /\ boot' = [boot EXCEPT !.pc = "dbconfig", !.source = "file",
                                  !.dbConfig = JsonParse(configFile.text)]
          /\ configFile' = configFile
     ELSE IF /\ env.DB_USER # <<>> /\ env.DB_PASSWORD # <<>>
             /\ env.DB_SERVER # <<>> /\ env.DB_NAME # <<>>
     THEN /\ configFile' = configFile
          /\ boot' = [boot EXCEPT !.pc = "dbconfig", !.source = "env",
                                  !.dbConfig = EnvConfig]
     ELSE \E a \in DbAnswers, save \in YesNoAnswers, writeOk \in BOOLEAN :
            PromptDbConfig(a, save, writeOk)
  /\ UNCHANGED <<env, pkg, tableExists>>
  /\ UNCHANGED serving

\* const dbConfig = await getDbConfig()
GetDbConfig ==
  /\ boot.pc = "start"
  /\ IF configFile.exists /\ configFile.parses
     THEN /\ boot' = [boot EXCEPT !.pc = "dbconfig", !.source = "file",
                                  !.dbConfig = JsonParse(configFile.text)]
          /\ configFile' = configFile
     ELSE IF /\ env.DB_USER # <<>> /\ env.DB_PASSWORD # <<>>
             /\ env.DB_SERVER # <<>> /\ env.DB_NAME # <<>>
     THEN \E writeOk \in BOOLEAN :
            /\ configFile' = IF writeOk THEN WrittenConfig(EnvConfig)
                             ELSE configFile
            /\ boot' = [boot EXCEPT !.pc = "dbconfig", !.source = "env",
                                    !.dbConfig = EnvConfig, !.saved = writeOk,
                                    !.writes = Append(@, EnvConfig)]
     ELSE \E a \in DbAnswers, save \in YesNoAnswers, writeOk \in BOOLEAN :
            PromptDbConfig(a, save, writeOk)
  /\ UNCHANGED <<env, pkg, tableExists>>
  /\ UNCHANGED serving

requiredFields == {"user", "password", "server", "database"}

\* A validation that lets every config through.
ValidateDbConfigNone ==
  /\ boot.pc = "dbconfig"
  /\ boot' = [boot EXCEPT !.pc = "validated"]
  /\ UNCHANGED <<env, pkg, configFile, tableExists>>
  /\ UNCHANGED serving

\* validateDbConfig(dbConfig)
ValidateDbConfig ==
  /\ boot.pc = "dbconfig"
  /\ IF boot.dbConfig = JsonNull
     THEN boot' = Fail(boot, "Database configuration is required")
     ELSE LET missingFields == {f \in requiredFields : ~Truthy(boot.dbConfig[f])}
          IN boot' = IF missingFields # {}
                     THEN Fail(boot, "Missing required database configuration fields")
                     ELSE [boot EXCEPT !.pc = "validated"]
  /\ UNCHANGED <<env, pkg, configFile, tableExists>>
  /\ UNCHANGED serving

\* const poolConnection = await sql.connect(fullDbConfig)
Connect ==
  /\ boot.pc = "validated"
  /\ \E ok \in BOOLEAN :
       LET b == [boot EXCEPT !.calls = Append(@, "sql.connect")]
       IN boot' = IF ok THEN [b EXCEPT !.pc = "connected", !.pool = "open"]
                  ELSE Fail(b, "connect")
  /\ UNCHANGED <<env, pkg, configFile, tableExists>>
  /\ UNCHANGED serving

\* A bootstrap that issues CREATE TABLE whatever the existence query reports.
CheckAndCreateTableAlways ==
  /\ boot.pc = "connected"
  /\ \E checked \in BOOLEAN, created \in BOOLEAN :
       LET b1 == [boot EXCEPT !.calls = Append(@, "SELECT OBJECT_ID")]
           b2 == [b1 EXCEPT !.calls = Append(@, "CREATE TABLE")]
       IN IF ~checked
          THEN /\ boot' = Fail(b1, "Error checking/creating table")
               /\ tableExists' = tableExists
          ELSE IF created /\ ~tableExists
          THEN /\ boot' = [b2 EXCEPT !.pc = "table", !.sigint = "handler"]
               /\ tableExists' = TRUE
          ELSE /\ boot' = Fail(b2, "Error checking/creating table")
               /\ tableExists' = tableExists
  /\ UNCHANGED <<env, pkg, configFile>>
  /\ UNCHANGED serving

\* A bootstrap that goes on when a query has failed.
CheckAndCreateTableSwallow ==
  /\ boot.pc = "connected"
  /\ \E checked \in BOOLEAN, created \in BOOLEAN :
       LET b1 == [boot EXCEPT !.calls = Append(@, "SELECT OBJECT_ID")]
           b2 == [b1 EXCEPT !.calls = Append(@, "CREATE TABLE")]
       IN IF ~checked
          THEN /\ boot' = [b1 EXCEPT !.pc = "table", !.sigint = "handler"]
               /\ tableExists' = tableExists
          ELSE IF tableExists
          THEN /\ boot' = [b1 EXCEPT !.pc = "table", !.sigint = "handler"]
               /\ tableExists' = tableExists
          ELSE /\ boot' = [b2 EXCEPT !.pc = "table", !.sigint = "handler"]
               /\ tableExists' = created
  /\ UNCHANGED <<env, pkg, configFile>>
  /\ UNCHANGED serving

\* await checkAndCreateTable(poolConnection): the existence query, and CREATE
\* TABLE when it reports no table; a query that fails is a DatabaseError.  When
\* it has returned, initializeServer sets up the routes and the SIGINT handler
\* before its next await.
CheckAndCreateTable ==
  /\ boot.pc = "connected"
  /\ \E checked \in BOOLEAN, created \in BOOLEAN :
       LET b1 == [boot EXCEPT !.calls = Append(@, "SELECT OBJECT_ID")]
           b2 == [b1 EXCEPT !.calls = Append(@, "CREATE TABLE")]
       IN IF ~checked
          THEN /\ boot' = Fail(b1, "Error checking/creating table")
               /\ tableExists' = tableExists
          ELSE IF tableExists
          THEN /\ boot' = [b1 EXCEPT !.pc = "table", !.sigint = "handler"]
               /\ tableExists' = tableExists
          ELSE IF created
          THEN /\ boot' = [b2 EXCEPT !.pc = "table", !.sigint = "handler"]
               /\ tableExists' = TRUE
          ELSE /\ boot' = Fail(b2, "Error checking/creating table")
               /\ tableExists' = tableExists
  /\ UNCHANGED <<env, pkg, configFile>>
  /\ UNCHANGED serving

DefaultPort == 3001

MaxPort == 65535

\* A save of the port that writes an object holding nothing but the port.
PromptPortOnly(config, change, custom, writeOk) ==
  LET b1         == Ask(boot, "Would you like to set a custom port?", change)
      b2         == Ask(b1, "Enter custom port number", custom)
      portNumber == ParseInt(custom)
      saved      == [EmptyObject EXCEPT !.port = Number(portNumber)]
  IN IF ToLowerCase(change) # <<"y">>
     THEN /\ boot' = [b1 EXCEPT !.pc = "port", !.port = Num(DefaultPort)]
          /\ configFile' = configFile
     ELSE IF isNaN(portNumber) \/ portNumber.val < 1 \/ portNumber.val > MaxPort
     THEN /\ boot' = [b2 EXCEPT !.pc = "port", !.port = Num(DefaultPort)]
          /\ configFile' = configFile
     ELSE /\ boot' = [b2 EXCEPT !.pc = "port", !.port = Number(portNumber),
                                !.writes = Append(@, saved)]
          /\ configFile' = IF writeOk THEN WrittenConfig(saved) ELSE configFile

\* getPortConfiguration, third way: the prompts of the packaged executable.
\* config is what was read from config.json, or {}; to set the port of a
\* config that is null is a TypeError, which leaves the function.
PromptPort(config, change, custom, writeOk) ==
  LET b1         == Ask(boot, "Would you like to set a custom port?", change)
      b2         == Ask(b1, "Enter custom port number", custom)
      portNumber == ParseInt(custom)
      saved      == [config EXCEPT !.port = Number(portNumber)]
  IN IF ToLowerCase(change) # <<"y">>
     THEN /\ boot' = [b1 EXCEPT !.pc = "port", !.port = Num(DefaultPort)]
          /\ configFile' = configFile
     ELSE IF isNaN(portNumber)
     THEN /\ boot' = [b2 EXCEPT !.pc = "port", !.port = Num(DefaultPort)]
          /\ configFile' = configFile
     ELSE IF portNumber.val < 1 \/ portNumber.val > MaxPort
     THEN /\ boot' = [b2 EXCEPT !.pc = "port", !.port = Num(DefaultPort)]
          /\ configFile' = configFile
     ELSE IF config = JsonNull
     THEN /\ boot' = Fail(b2, "TypeError")
          /\ configFile' = configFile
     ELSE /\ boot' = [b2 EXCEPT !.pc = "port", !.port = Number(portNumber),
                                !.writes = Append(@, saved)]
          /\ configFile' = IF writeOk THEN WrittenConfig(saved) ELSE configFile

\* A resolution that looks at config.json before it looks at PORT.
GetPortConfigurationFileFirst ==
  /\ boot.pc = "table"
  /\ LET parsed == configFile.exists /\ configFile.parses
         config == IF parsed THEN JsonParse(configFile.text) ELSE EmptyObject
     IN IF parsed /\ config # JsonNull /\ Truthy(config.port)
        THEN /\ boot' = [boot EXCEPT !.pc = "port", !.port = config.port]
             /\ configFile' = configFile
        ELSE IF env.PORT # <<>>
        THEN /\ boot' = [boot EXCEPT !.pc = "port",
                                     !.port = Number(ParseInt(env.PORT))]
             /\ configFile' = configFile
        ELSE /\ boot' = [boot EXCEPT !.pc = "port", !.port = Num(DefaultPort)]
             /\ configFile' = configFile
  /\ UNCHANGED <<env, pkg, tableExists>>
  /\ UNCHANGED serving

\* const port = await getPortConfiguration()
GetPortConfiguration ==
  /\ boot.pc = "table"
  /\ IF env.PORT # <<>>
     THEN /\ boot' = [boot EXCEPT !.pc = "port",
                                  !.port = Number(ParseInt(env.PORT))]
          /\ configFile' = configFile
     ELSE LET parsed == configFile.exists /\ configFile.parses
              config == IF parsed THEN JsonParse(configFile.text)
                        ELSE EmptyObject
          IN IF parsed /\ config # JsonNull /\ Truthy(config.port)
             THEN /\ boot' = [boot EXCEPT !.pc = "port", !.port = config.port]
                  /\ configFile' = configFile
             ELSE IF pkg
             THEN \E change \in YesNoAnswers, custom \in PortAnswers,
                     writeOk \in BOOLEAN :
                    PromptPort(config, change, custom, writeOk)
             ELSE /\ boot' = [boot EXCEPT !.pc = "port",
                                          !.port = Num(DefaultPort)]
                  /\ configFile' = configFile
  /\ UNCHANGED <<env, pkg, tableExists>>
  /\ UNCHANGED serving

\* net's validatePort: listen throws for a port that is no integer in 0..65535
ListenAccepts(port) ==
  port.type = "number" /\ ~port.nan /\ port.val >= 0 /\ port.val <= MaxPort

\* app.listen followed by a question to the operator
ListenThenPrompt ==
  /\ boot.pc = "port"
  /\ boot' = Ask([boot EXCEPT !.calls = Append(@, "app.listen"),
                              !.pc = "listening"],
                 "Enter custom port number", "8080")
  /\ UNCHANGED <<env, pkg, configFile, tableExists>>
  /\ UNCHANGED serving

\* const server = app.listen(port, ...): a port listen refuses is an exception
\* that ends in the catch, a port in use is only logged by server.on('error')
Listen ==
  /\ boot.pc = "port"
  /\ IF ~ListenAccepts(boot.port)
     THEN boot' = Fail([boot EXCEPT !.calls = Append(@, "app.listen")],
                       "ERR_SOCKET_BAD_PORT")
     ELSE \E inUse \in BOOLEAN :
            LET b == [boot EXCEPT !.calls = Append(@, "app.listen")]
            IN boot' = IF inUse THEN [b EXCEPT !.pc = "not_listening",
                                               !.error = "EADDRINUSE"]
                       ELSE [b EXCEPT !.pc = "listening"]
  /\ UNCHANGED <<env, pkg, configFile, tableExists>>
  /\ UNCHANGED serving

\* process.on('SIGINT', ...): the first signal is logged and arms the handler
\* of the next one, which is process.exit(1).  Neither closes the server or
\* the pool, and the exit drops the requests in flight.
Sigint ==
  /\ alive /\ boot.sigint # "default" /\ ~boot.exited
  /\ IF boot.sigint = "handler"
     THEN /\ boot' = [boot EXCEPT !.sigint = "once"]
          /\ alive' = alive
     ELSE /\ boot' = [boot EXCEPT !.pc = "exited", !.exited = TRUE,
                                  !.exitCode = 1]
          /\ alive' = FALSE
  /\ sent' = NoSent
  /\ UNCHANGED <<rows, nextId, disk, inflight, hist>>
  /\ UNCHANGED <<env, pkg, configFile, tableExists>>

\* The process has exited or is ended from outside, and the program is started
\* again, in whatever environment: config.json and the database are as it left
\* them.
Restart ==
  /\ boot.pc \in {"listening", "not_listening", "failed", "exited"}
  /\ env' \in Envs
  /\ boot' = BootStart([source |-> boot.source, dbConfig |-> boot.dbConfig,
                        saved |-> boot.saved,
                        created |-> (Called("CREATE TABLE")
                                       /\ boot.error # "Error checking/creating table")])
  /\ alive' = TRUE
  /\ UNCHANGED <<pkg, configFile, tableExists>>
  /\ UNCHANGED <<rows, nextId, disk, inflight, sent, hist>>

StartupInit ==
  /\ rows = {}
  /\ nextId = 1
  /\ disk = {}
  /\ inflight = EmptyBag
  /\ sent = NoSent
  /\ alive = TRUE
  /\ generated = {}
  /\ collided = FALSE
  /\ delPassed = {}
  /\ n200 = 0
  /\ deleted = {}
  /\ env \in Envs
  /\ pkg \in BOOLEAN
  /\ configFile \in ConfigFiles
  /\ tableExists \in BOOLEAN
  /\ boot = BootStart(NoPrev)

StartupNext ==
  \/ GetDbConfig
  \/ ValidateDbConfig
  \/ Connect
  \/ CheckAndCreateTable
  \/ GetPortConfiguration
  \/ Listen
  \/ Sigint
  \/ Restart

Startup == StartupInit /\ [][StartupNext]_vars

\* The steps of initializeServer are taken when they can be; signals and
\* restarts come from outside, or do not come.
StartupFair ==
  /\ Startup
  /\ WF_vars(GetDbConfig) /\ WF_vars(ValidateDbConfig) /\ WF_vars(Connect)
  /\ WF_vars(CheckAndCreateTable) /\ WF_vars(GetPortConfiguration)
  /\ WF_vars(Listen)

\* The server once it listens: the requests, and the signals sent to the
\* process.
ShutdownNext == Next \/ Sigint

Shutdown == Init /\ [][ShutdownNext]_vars

-----------------------------------------------------------------------------
(* Properties of the handlers.                                              *)

\* the records of the requests the state holds: in flight, or just answered
Requests == InFlight \cup {sent.req}

\* the last step answered a request of this kind with this status
Answered(kind, status) == sent.req.kind = kind /\ sent.status = status

\* no filename has been generated twice
Distinct == ~collided

\* the file a stored path names is on disk, in the upload directory under
\* this filename, and a row stores exactly this path
PathServed(path, filename) ==
  /\ FullPath(path) \in disk
  /\ FullPath(path) = imageUploadDirectory \o <<filename>>
  /\ \E w \in rows : w.image_path = path

\* C1, as stated: at the moment an upload is answered 200, the returned path
\* names a file that exists in the upload directory and a row of Images stores
\* exactly the returned path.
C1_AsStated ==
  Answered("upload", 200) => PathServed(sent.body.path, sent.body.filename)

\* C1, amended: at the moment an upload is answered 200, the returned path
\* names a file that exists in the upload directory and a row of Images stores
\* exactly the returned path, provided that no filename was generated twice and
\* that no delete for the id of the upload's row has passed its file-removal
\* step before the response.
C1_UploadAnswered ==
  (Answered("upload", 200) /\ Distinct /\ sent.req.rowId \notin delPassed)
    => PathServed(sent.body.path, sent.body.filename)

\* an upload is answered 200 while a delete is in flight, none for its row
C1_Witness ==
  /\ Answered("upload", 200) /\ Distinct /\ sent.req.rowId \notin delPassed
  /\ \E p \in InFlight : p.kind = "delete" /\ p.pc = "delete_wait"

\* the request is an upload whose INSERT failed
InsertFailed(q) == q.kind = "upload" /\ q.pc \in {"insert_ret", "threw"} /\ ~q.qres.ok

C3_AsStated ==
  \A d \in deleted :
    /\ d.id \notin {w.id : w \in rows}
    /\ Answered("list", 200) => d.id \notin Ids(sent.body.recordset)
    /\ d.path \notin disk

\* C3, amended: once a delete of an id whose row existed has been answered
\* 200, the row of that id is not in the table and no listing answered from
\* then on contains that id; and, provided that no filename was generated
\* twice, the file the row pointed to is not on disk.
C3_DeleteAnswered ==
  \A d \in deleted :
    /\ d.id \notin {w.id : w \in rows}
    /\ Answered("list", 200) => d.id \notin Ids(sent.body.recordset)
    /\ Distinct => d.path \notin disk

\* a listing is answered after a delete was answered 200, with another row
\* still in the table
C3_Witness ==
  /\ deleted # {} /\ Distinct
  /\ Answered("list", 200) /\ sent.body.recordset # <<>>

\* request p is a delete whose lookup found no row, and this step ends it
NotFoundStep(p) ==
  /\ p.kind = "delete" /\ p.pc = "lookup_ret"
  /\ p.qres.ok /\ p.qres.recordset = <<>>
  /\ CopiesIn(p, inflight') < CopiesIn(p, inflight)

\* C4: a delete whose lookup finds no row of its id is answered 404, and in
\* being answered leaves the rows and the files as they were; the request has
\* issued no DELETE statement and made no call to the file system.
C4_NotFoundFrame ==
  [][\A p \in InFlight :
       NotFoundStep(p) => /\ sent'.status = 404 /\ sent'.req = p
                          /\ rows' = rows /\ disk' = disk
                          /\ "DELETE" \notin sent'.req.stmts
                          /\ sent'.req.fsops = {}]_vars

\* a delete of an id without a row is answered 404 while the table has a row
\* and the disk a file
C4_Witness ==
  /\ Answered("delete", 404) /\ sent.req.stmts = {"SELECT_ID"}
  /\ rows # {} /\ disk # {}

\* C5, as stated: a delete whose id parameter is not wholly numeric is answered
\* 400, and its handler issues no statement and makes no call to the file
\* system.
C5_AsStated ==
  \A q \in Requests :
    (q.kind = "delete" /\ ~WhollyNumeric(q.param))
      => /\ q.stmts = {} /\ q.fsops = {}
         /\ q = sent.req /\ sent.status = 400

\* C6, as stated: of the deletes of one id, at most one is answered 200: a
\* delete is answered 200 only if no delete of its id was answered 200 before.
C6_AsStated ==
  [][Answered("delete", 200)' => sent'.req.id \notin {d.id : d \in deleted}]_vars

\* C7, as stated: every row of Images has its file on disk, unless a delete of
\* the row's id has passed its file-removal step; so a row is never created
\* with its file absent.
C7_AsStated ==
  \A w \in rows : FullPath(w.image_path) \in disk \/ w.id \in delPassed

\* C7, amended: provided that no filename was generated twice, every row of
\* Images has its file on disk, unless a delete of the row's id has passed its
\* file-removal step; so a row is never created with its file absent.
C7_RowsHaveFiles ==
  Distinct => \A w \in rows : FullPath(w.image_path) \in disk \/ w.id \in delPassed

\* two rows have their files while another upload is in flight
C7_Witness ==
  /\ Distinct /\ Cardinality(rows) = 2 /\ delPassed = {}
  /\ \A w \in rows : FullPath(w.image_path) \in disk
  /\ \E p \in InFlight : p.kind = "upload"

\* the uploads in flight whose INSERT succeeded and which are not yet answered
InsertedUnanswered ==
  {p \in InFlight : p.kind = "upload" /\ p.pc = "insert_ret" /\ p.qres.ok}

\* C8: a listing of the empty table answers the empty sequence; and as long as
\* no delete has got as far as removing anything, a listing answers exactly as
\* many records as uploads have succeeded (those answered 200, and those whose
\* INSERT succeeded and whose answer is on its way), with pairwise distinct
\* ids.
C8_ListCount ==
  Answered("list", 200) =>
    LET recordset == sent.body.recordset
    IN /\ rows = {} => recordset = <<>>
       /\ delPassed = {} =>
            /\ Len(recordset) = n200 + Cardinality(InsertedUnanswered)
            /\ \A i, j \in 1..Len(recordset) :
                 recordset[i].id = recordset[j].id => i = j

\* a listing answers two records after two uploads were answered 200
C8_Witness ==
  /\ Answered("list", 200) /\ delPassed = {}
  /\ n200 = 2 /\ Len(sent.body.recordset) = 2

\* the request is an upload that carries a file of a type other than
\* image/jpeg, image/png and image/gif
OtherType(q) ==
  /\ q.kind = "upload" /\ q.part.present
  /\ q.part.mimetype \notin {"image/jpeg", "image/png", "image/gif"}

\* C9: an upload whose declared type is none of image/jpeg, image/png and
\* image/gif is answered 400 in the step that receives it: it has written no
\* file, issued no INSERT and has no row, and the step leaves the files and
\* the rows as they were.
C9_TypeRefused ==
  [][\A q \in Requests' :
       OtherType(q) => /\ q = sent'.req /\ sent'.status = 400
                       /\ q.fsops = {} /\ q.file = NoFile
                       /\ q.stmts = {} /\ q.rowId = 0
                       /\ disk' = disk /\ rows' = rows]_vars

\* a text/plain upload is answered 400 while the table has a row
C9_Witness ==
  /\ OtherType(sent.req) /\ sent.status = 400
  /\ sent.req.part.mimetype = "text/plain" /\ rows # {}

\* the request is an upload that carries a file of more than 5 MiB
Oversize(q) ==
  q.kind = "upload" /\ q.part.present /\ q.part.size > 5 * 1024 * 1024

\* C10: an upload whose file is larger than 5 MiB never reaches the INSERT:
\* the request issues no INSERT, no row is added for it, and the step that
\* answers it leaves the rows as they were.
C10_OversizeNoRow ==
  [][\A q \in Requests' :
       Oversize(q) => /\ "INSERT" \notin q.stmts /\ q.rowId = 0
                      /\ q \notin InFlight'
                      /\ rows' = rows]_vars

\* an image/png upload of more than 5 MiB is answered by the error middleware
C10_Witness ==
  /\ Oversize(sent.req) /\ fileFilter(sent.req.part.mimetype)
  /\ sent.status = 500 /\ sent.body.error = "File too large"

\* the request is an upload that carries no file in the field image
NoFileSent(q) == q.kind = "upload" /\ ~q.part.present

\* C11, as stated: every upload that is rejected for its type, for its size or
\* for carrying no file is answered 400; an oversize upload is answered 400.
C11_AsStated ==
  (sent.status # 0 /\ (NoFileSent(sent.req) \/ OtherType(sent.req) \/ Oversize(sent.req)))
    => sent.status = 400

\* C12: an upload that carries no file in the field image is answered 400
\* 'No file uploaded' in the step that receives it; its handler has issued no
\* INSERT and made no call to the file system, and the step leaves the files
\* and the rows as they were.
C12_NoFileRefused ==
  [][\A q \in Requests' :
       NoFileSent(q) => /\ q = sent'.req /\ sent'.status = 400
                        /\ sent'.body.error = "No file uploaded"
                        /\ q.stmts = {} /\ q.fsops = {} /\ q.file = NoFile
                        /\ disk' = disk /\ rows' = rows]_vars

\* an upload without a file is answered 400 while the table has a row and the
\* disk a file
C12_Witness ==
  /\ NoFileSent(sent.req) /\ sent.status = 400
  /\ rows # {} /\ disk # {}

\* the request is a listing whose SELECT failed
SelectFailed(q) == q.kind = "list" /\ "SELECT_ALL" \in q.stmts /\ ~q.qres.ok

\* C13: a listing whose SELECT fails is answered 500 'DB fetch failed' with no
\* records in the answer, and the step leaves the rows and the files as they
\* were.
C13_ListFailure ==
  [][\A q \in Requests' :
       SelectFailed(q) => /\ q = sent'.req /\ sent'.status = 500
                          /\ sent'.body.error = "DB fetch failed"
                          /\ sent'.body.recordset = <<>>
                          /\ q.fsops = {}
                          /\ rows' = rows /\ disk' = disk]_vars

\* a listing fails while the table has a row and the disk a file
C13_Witness ==
  /\ SelectFailed(sent.req) /\ sent.status = 500
  /\ rows # {} /\ disk # {}

\* C14, as stated: an upload whose INSERT failed is always answered 500
\* 'DB insert failed', also when the removal of its file fails: none ends
\* without that answer.
C14_AsStated ==
  \A q \in Requests :
    (InsertFailed(q) /\ (q.pc = "threw" \/ (q = sent.req /\ sent.status # 0)))
      => /\ q = sent.req /\ q.pc # "threw"
         /\ sent.status = 500 /\ sent.body.error = "DB insert failed"

\* C15, as stated: no failure inside a request ends the process or leaves an
\* exception unhandled: the process runs in every state and no handler has
\* ended by an exception.
C15_AsStated ==
  alive /\ \A p \in InFlight : p.pc # "threw"

\* the request is a delete whose id parameter parses as an integer that is
\* zero or negative
NotPositive(q) ==
  /\ q.kind = "delete"
  /\ ~isNaN(ParseInt(q.param)) /\ ParseInt(q.param).val <= 0

\* C16, as stated: a delete whose id is zero or negative is answered 400, and
\* its handler has issued no lookup.
C16_AsStated ==
  \A q \in Requests :
    NotPositive(q) => /\ q = sent.req /\ sent.status = 400
                      /\ q.stmts = {}

\* request p is a delete whose lookup found the row, the file of which is not
\* on disk, and this step takes the handler on
FileAbsentStep(p) ==
  /\ p.kind = "delete" /\ p.pc = "lookup_ret"
  /\ p.qres.ok /\ p.qres.recordset # <<>>
  /\ FullPath(p.qres.recordset[1].image_path) \notin disk
  /\ CopiesIn(p, inflight') < CopiesIn(p, inflight)

\* request p is a delete that removed no file and awaits its DELETE, and this
\* step answers it
AbsentAnswered(p) ==
  /\ p.kind = "delete" /\ p.pc = "delete_wait" /\ "unlinkSync" \notin p.fsops
  /\ sent'.status # 0 /\ sent'.req.id = p.id /\ sent'.req.fsops = p.fsops
  /\ CopiesIn(p, inflight') < CopiesIn(p, inflight)

\* C28: a delete whose lookup found the row and whose file is not on disk
\* goes on to the DELETE of the row: it calls no removal, and the files stay
\* as they are; and the DELETE, once the store has executed it, is answered
\* 200 with no row of that id left and no file removed.
C28_AbsentFileProceeds ==
  [][\A p \in InFlight :
       /\ FileAbsentStep(p) =>
            /\ disk' = disk /\ rows' = rows /\ sent'.status = 0
            /\ \E q \in InFlight' :
                 /\ q.id = p.id /\ q.pc = "delete_wait"
                 /\ "DELETE" \in q.stmts /\ q.fsops = {"existsSync"}
       /\ AbsentAnswered(p) =>
            /\ disk' = disk
            /\ sent'.status \in {200, 500}
            /\ sent'.status = 200 <=> sent'.req.qres.ok
            /\ sent'.status = 200 => \A w \in rows' : w.id # p.id]_vars

\* a delete that found its file gone has been answered 200, with the row
\* removed and another file still on disk
C28_Witness ==
  /\ Answered("delete", 200) /\ sent.req.fsops = {"existsSync"}
  /\ sent.req.id \in {d.id : d \in deleted}
  /\ disk # {}

\* request p is a delete whose lookup found the row, and this step is the
\* removal of its file, which fails: the file is on disk before and after
RemovalFailedStep(p) ==
  /\ p.kind = "delete" /\ p.pc = "lookup_ret"
  /\ p.qres.ok /\ p.qres.recordset # <<>>
  /\ FullPath(p.qres.recordset[1].image_path) \in disk \cap disk'
  /\ CopiesIn(p, inflight') < CopiesIn(p, inflight)

\* C29, as stated: a delete issues its DELETE only after the removal step of
\* its file; and when the removal fails, the request is answered 500 'Delete
\* failed', has issued no DELETE, and the row of its id is still in the table.
C29_AsStated ==
  /\ [](\A q \in Requests :
          "DELETE" \in q.stmts => "existsSync" \in q.fsops /\ q.id \in delPassed)
  /\ [][\A p \in InFlight :
          RemovalFailedStep(p) =>
            /\ sent'.status = 500 /\ sent'.body.error = "Delete failed"
            /\ sent'.req.id = p.id /\ "DELETE" \notin sent'.req.stmts
            /\ rows' = rows
            /\ \E w \in rows' : w.id = p.id]_vars

\* C29, amended: a delete issues its DELETE only after the removal step of
\* its file; and when the removal fails, the request is answered 500 'Delete
\* failed', has issued no DELETE and leaves the rows as they are, so that,
\* provided that no filename was generated twice, the row of its id is still
\* in the table.
C29_RemovalBeforeRow ==
  /\ [](\A q \in Requests :
          "DELETE" \in q.stmts => "existsSync" \in q.fsops /\ q.id \in delPassed)
  /\ [][\A p \in InFlight :
          RemovalFailedStep(p) =>
            /\ sent'.status = 500 /\ sent'.body.error = "Delete failed"
            /\ sent'.req.id = p.id /\ "DELETE" \notin sent'.req.stmts
            /\ rows' = rows
            /\ Distinct' => \E w \in rows' : w.id = p.id]_vars

\* a delete whose file could not be removed has been answered 500, and its row
\* is in the table
C29_Witness ==
  /\ Answered("delete", 500) /\ sent.body.error = "Delete failed"
  /\ "unlinkSync" \in sent.req.fsops /\ sent.req.stmts = {"SELECT_ID"}
  /\ \E w \in rows : w.id = sent.req.id /\ FullPath(w.image_path) \in disk
  /\ Distinct

\* the ids of the rows whose upload has been answered 200: the INSERT has been
\* executed and the upload is no longer in flight
UploadedIds ==
  {i \in 1..(nextId - 1) : \A p \in InFlight : ~(p.kind = "upload" /\ p.rowId = i)}

\* C30, as stated: a listing answered 200 contains the row of every upload
\* answered 200 before it started and the id of no delete answered 200 before
\* it started; and the step of a listing changes no row and no file.
C30_AsStated ==
  /\ [](Answered("list", 200) =>
          /\ \A i \in UploadedIds : i \in Ids(sent.body.recordset)
          /\ \A d \in deleted : d.id \notin Ids(sent.body.recordset))
  /\ [][sent'.req.kind = "list" => rows' = rows /\ disk' = disk]_vars

\* C30, amended: a listing answered 200 holds the rows of the table as they
\* are when it is answered: it contains the row of every upload answered 200
\* before it started, unless a delete of that id has been answered 200, and
\* the id of no delete answered 200 before it started; and the step of a
\* listing changes no row and no file.
C30_ListingDirect ==
  /\ [](Answered("list", 200) =>
          /\ sent.body.recordset = SelectAll
          /\ \A i \in UploadedIds :
               i \in Ids(sent.body.recordset) \/ i \in {d.id : d \in deleted}
          /\ \A d \in deleted : d.id \notin Ids(sent.body.recordset))
  /\ [][sent'.req.kind = "list" => rows' = rows /\ disk' = disk]_vars

\* a listing is answered, after two uploads and the delete of one of them were
\* answered 200, with the row of the other, while another request is in flight
C30_Witness ==
  /\ Answered("list", 200) /\ n200 = 2 /\ Cardinality(deleted) = 1
  /\ Len(sent.body.recordset) = 1
  /\ sent.body.recordset[1].id \in UploadedIds
  /\ InFlight # {}

\* C27, as stated: an upload answered 200 reports the id the store gave the
\* new row, together with the path and the filename.
C27_AsStated ==
  Answered("upload", 200) =>
    /\ sent.body.id = sent.req.rowId
    /\ sent.body.path = sent.req.imagePath
    /\ sent.body.filename = sent.req.file.filename

-----------------------------------------------------------------------------
(* Properties of the startup.                                               *)

\* this step is the call of getPortConfiguration
PortResolved == boot.pc = "table" /\ boot'.pc = "port"

\* config.json parses and holds a port field when the step begins
FileHoldsPort ==
  configFile.exists /\ configFile.parses /\ configFile.text.port # Undefined

\* the step asks for a custom port number
AsksCustomPort ==
  Len(boot'.asked) > Len(boot.asked)
    /\ boot'.asked[Len(boot'.asked)] = "Enter custom port number"

\* C17, as stated: a non-empty PORT yields that port whatever config.json
\* holds; with no PORT and a config.json that holds a port field, that port is
\* returned; with neither and no custom port asked for, the result is 3001.
C17_AsStated ==
  [][PortResolved =>
       /\ env.PORT # <<>> =>
            /\ configFile' = configFile /\ boot'.asked = boot.asked
            /\ WhollyNumeric(env.PORT) =>
                 boot'.port = Num(DigitsValue(env.PORT, 10, 0))
       /\ (env.PORT = <<>> /\ FileHoldsPort) =>
            boot'.port = configFile.text.port
       /\ (env.PORT = <<>> /\ ~FileHoldsPort /\ ~AsksCustomPort) =>
            boot'.port = Num(3001)]_vars

\* config.json parses and holds a port that is a number other than zero or a
\* string other than the empty one
FileHoldsTruthyPort ==
  /\ FileHoldsPort
  /\ \/ configFile.text.port.type = "number" /\ configFile.text.port.val # 0
     \/ configFile.text.port.type = "string" /\ configFile.text.port.str # <<>>

\* C17, amended: a non-empty PORT yields that port whatever config.json holds;
\* with no PORT and a config.json that holds a port field whose value is not
\* zero (nor null, nor empty), that port is returned; with neither and no
\* custom port asked for, the result is 3001.
C17_PortPriority ==
  [][PortResolved =>
       /\ env.PORT # <<>> =>
            /\ configFile' = configFile /\ boot'.asked = boot.asked
            /\ WhollyNumeric(env.PORT) =>
                 boot'.port = Num(DigitsValue(env.PORT, 10, 0))
       /\ (env.PORT = <<>> /\ FileHoldsTruthyPort) =>
            /\ boot'.port = configFile.text.port
            /\ configFile' = configFile /\ boot'.asked = boot.asked
       /\ (env.PORT = <<>> /\ ~FileHoldsTruthyPort /\ ~AsksCustomPort) =>
            boot'.port = Num(3001)]_vars

\* PORT=4000 has won over a config.json that holds port 5000
C17_Witness ==
  /\ boot.pc = "port" /\ boot.port = Num(4000)
  /\ env.PORT = <<"4", "0", "0", "0">>
  /\ configFile.parses /\ configFile.text.port = Num(5000)

\* C18, as stated: the port that port resolution returns is an integer in
\* 1..65535.
C18_AsStated ==
  boot.pc \in {"port", "listening", "not_listening"}
    => /\ boot.port.type = "number" /\ ~boot.port.nan
       /\ boot.port.val >= 1 /\ boot.port.val <= 65535

\* this step is the call of getDbConfig
DbConfigResolved == boot.pc = "start" /\ boot'.pc # "start"

\* config.json exists and parses when the step begins
FileUsable == configFile.exists /\ configFile.parses

\* C19: when config.json exists and parses, getDbConfig returns its content
\* verbatim, whatever DB_USER, DB_PASSWORD, DB_SERVER and DB_NAME are: nothing
\* is prompted and nothing is written to the file.
C19_FileVerbatim ==
  [][(DbConfigResolved /\ FileUsable) =>
       /\ boot'.pc = "dbconfig"
       /\ DOMAIN boot'.dbConfig = DOMAIN configFile.text
       /\ \A f \in DOMAIN configFile.text :
            boot'.dbConfig[f] = configFile.text[f]
       /\ boot'.asked = <<>> /\ boot'.writes = <<>>
       /\ configFile' = configFile]_vars

\* the config of the file was returned although all four variables are set to
\* other values
C19_Witness ==
  /\ boot.pc = "dbconfig" /\ boot.source = "file" /\ boot.asked = <<>>
  /\ env.DB_USER # <<>> /\ env.DB_PASSWORD # <<>>
  /\ env.DB_SERVER # <<>> /\ env.DB_NAME # <<>>
  /\ boot.dbConfig # JsonNull
  /\ boot.dbConfig.user # Str(env.DB_USER)
  /\ boot.dbConfig = configFile.text

\* all four database variables are non-empty
EnvComplete ==
  /\ env.DB_USER # <<>> /\ env.DB_PASSWORD # <<>>
  /\ env.DB_SERVER # <<>> /\ env.DB_NAME # <<>>

\* the object { user, password, server, database } of the four variables
EnvObject ==
  [user |-> Str(env.DB_USER), password |-> Str(env.DB_PASSWORD),
   server |-> Str(env.DB_SERVER), database |-> Str(env.DB_NAME),
   port |-> Undefined]

\* the database fields of the two objects are the same
SameDb(a, b) ==
  /\ a.user = b.user /\ a.password = b.password
  /\ a.server = b.server /\ a.database = b.database

\* C20, as stated: with no usable config.json and all four variables
\* non-empty, getDbConfig returns exactly those values, prompts nothing, and
\* writes them to config.json; the startup that follows resolves the same
\* database configuration from the file.
C20_AsStated ==
  [][/\ (DbConfigResolved /\ ~FileUsable /\ EnvComplete) =>
          /\ boot'.dbConfig = EnvObject /\ boot'.asked = <<>>
          /\ configFile'.exists /\ configFile'.parses
          /\ configFile'.text = EnvObject
     /\ (DbConfigResolved /\ boot.prev.source = "env") =>
          /\ boot'.source = "file"
          /\ SameDb(boot'.dbConfig, boot.prev.dbConfig)]_vars

\* C20, amended: with no usable config.json and all four variables non-empty,
\* getDbConfig returns exactly those values, prompts nothing, and hands them
\* to one write of config.json; unless that write fails, the file then holds
\* them, and the startup that follows resolves the same database
\* configuration from the file.
C20_EnvPersisted ==
  [][/\ (DbConfigResolved /\ ~FileUsable /\ EnvComplete) =>
          /\ boot'.dbConfig = EnvObject /\ boot'.asked = <<>>
          /\ boot'.writes = <<EnvObject>>
          /\ boot'.saved =>
               /\ configFile'.exists /\ configFile'.parses
               /\ configFile'.text = EnvObject
          /\ ~boot'.saved => configFile' = configFile
     /\ (DbConfigResolved /\ boot.prev.source = "env" /\ boot.prev.saved) =>
          /\ boot'.source = "file"
          /\ SameDb(boot'.dbConfig, boot.prev.dbConfig)]_vars

\* a startup has resolved from config.json what the startup before it took from
\* the environment and saved, the variables being unset by now
C20_Witness ==
  /\ boot.pc = "dbconfig" /\ boot.source = "file"
  /\ boot.prev.source = "env" /\ boot.prev.saved
  /\ boot.dbConfig.user = Str(<<"envuser">>)
  /\ env.DB_USER = <<>>

\* the config is an object whose user, password, server and database are
\* all there and none of them empty
FieldsGiven(config) ==
  /\ config # JsonNull
  /\ \A f \in {"user", "password", "server", "database"} :
       config[f] \notin {Undefined, JsonNull, Str(<<>>)}

\* C21: sql.connect is called only with a resolved configuration whose user,
\* password, server and database are all non-empty; a resolved configuration
\* that is null, or in which one of the four is missing or empty, ends the
\* startup with a configuration error, and that run calls neither sql.connect
\* nor app.listen.
C21_ConnectValidated ==
  /\ [](Called("sql.connect") => FieldsGiven(boot.dbConfig))
  /\ [][boot.pc = "dbconfig" =>
          IF FieldsGiven(boot.dbConfig)
          THEN boot'.pc = "validated"
          ELSE /\ boot'.pc = "failed"
               /\ boot'.error \in {"Database configuration is required",
                                  "Missing required database configuration fields"}]_vars
  /\ []((boot.pc = "failed" /\ ~FieldsGiven(boot.dbConfig))
          => ~Called("sql.connect") /\ ~Called("app.listen") /\ boot.pool = "none")

\* a config.json that holds null has ended the startup before any connection
C21_Witness ==
  /\ boot.pc = "failed" /\ boot.dbConfig = JsonNull
  /\ boot.error = "Database configuration is required"
  /\ boot.calls = <<>>

\* C22, as stated: a startup that has failed fatally, by a configuration
\* error, a failed connect or a failed schema bootstrap, leads to the exit of
\* the process with a non-zero exit code.
C22_AsStated ==
  (boot.pc = "failed"
     /\ boot.error \in {"Database configuration is required",
                        "Missing required database configuration fields",
                        "connect", "Error checking/creating table"})
    ~> (boot.exited /\ boot.exitCode # 0)

\* this step is the call of checkAndCreateTable
TableEnsured == boot.pc = "connected" /\ boot'.pc # "connected"

\* the calls this step makes
Issued == SubSeq(boot'.calls, Len(boot.calls) + 1, Len(boot'.calls))

\* C23: checkAndCreateTable issues one existence query, and CREATE TABLE only
\* when the table is absent; when it returns, it has issued two queries if the
\* table was absent and one if it was present, and the table exists.  The table
\* stays, so that the bootstrap of a startup after one that created the table
\* issues no CREATE TABLE.
C23_BootstrapIdempotent ==
  /\ [][TableEnsured =>
          /\ Issued # <<>> /\ Issued[1] = "SELECT OBJECT_ID"
          /\ \A i \in 2..Len(Issued) : Issued[i] # "SELECT OBJECT_ID"
          /\ (\E i \in DOMAIN Issued : Issued[i] = "CREATE TABLE") => ~tableExists
          /\ boot'.pc = "table" =>
               /\ Issued = IF tableExists THEN <<"SELECT OBJECT_ID">>
                           ELSE <<"SELECT OBJECT_ID", "CREATE TABLE">>
               /\ tableExists'
          /\ boot.prev.created =>
               \A i \in DOMAIN Issued : Issued[i] # "CREATE TABLE"]_vars
  /\ [][tableExists => tableExists']_vars

\* the bootstrap has run with one query in the startup after the one that
\* created the table
C23_Witness ==
  /\ boot.pc = "table" /\ boot.prev.created
  /\ boot.calls = <<"sql.connect", "SELECT OBJECT_ID">>

\* C24: checkAndCreateTable either returns with the table in place or raises
\* the database error, after one existence query and at most one CREATE TABLE;
\* a startup that raised it issues no further query and never calls
\* app.listen; and app.listen is called only with the table in place, after
\* the existence query of this run.
C24_BootstrapFailure ==
  /\ [][TableEnsured =>
          /\ boot'.pc \in {"table", "failed"}
          /\ boot'.pc = "table" => tableExists'
          /\ boot'.pc = "failed" =>
               /\ boot'.error = "Error checking/creating table"
               /\ Issued \in {<<"SELECT OBJECT_ID">>,
                              <<"SELECT OBJECT_ID", "CREATE TABLE">>}]_vars
  /\ [][boot.error = "Error checking/creating table" =>
          \/ boot'.calls = boot.calls /\ boot'.pc = "failed"
          \/ boot'.pc = "start"]_vars
  /\ [](boot.error = "Error checking/creating table" => ~Called("app.listen"))
  /\ [](Called("app.listen") => tableExists /\ Called("SELECT OBJECT_ID"))

\* the CREATE TABLE has failed: the startup is over, without the table and
\* without a listener
C24_Witness ==
  /\ boot.pc = "failed" /\ boot.error = "Error checking/creating table"
  /\ boot.calls = <<"sql.connect", "SELECT OBJECT_ID", "CREATE TABLE">>
  /\ ~tableExists

\* C25, as stated: once a first SIGINT has been handled no request is accepted
\* any more, and the process exits only with no request in flight and the
\* pool closed.
C25_AsStated ==
  /\ [][boot.sigint = "once" =>
          /\ ~(\E part \in Parts : UploadReceive(part))
          /\ ~ListRequest
          /\ ~(\E param \in IdParams : DeleteReceive(param))]_vars
  /\ [](boot.exited => inflight = EmptyBag /\ boot.pool = "closed")

\* C26: the save of a port chosen at the prompt hands to the write of
\* config.json the object read from that file with the chosen port set in it;
\* when the write goes through the file holds the port, and in every case the
\* user, password, server and database of the file are what they were.
C26_PortSaved ==
  [][(PortResolved /\ Len(boot'.writes) > Len(boot.writes)) =>
       LET written == boot'.writes[Len(boot'.writes)]
       IN /\ AsksCustomPort
          /\ written.port = boot'.port
          /\ \A f \in {"user", "password", "server", "database"} :
               /\ written[f] = configFile.text[f]
               /\ configFile'.text[f] = configFile.text[f]
          /\ configFile' # configFile =>
               /\ configFile'.exists /\ configFile'.parses
               /\ configFile'.text.port = boot'.port]_vars

\* port 8080, typed at the prompt, has been saved into a config.json that
\* held the database fields, which it still holds
C26_Witness ==
  /\ boot.pc = "port" /\ boot.port = Num(8080)
  /\ Len(boot.writes) = 1 /\ boot.source = "file"
  /\ configFile.text = [FileDb EXCEPT !.port = Num(8080)]

\* C31: every question to the operator is asked by a step after which
\* app.listen has not been called yet; once app.listen has been called, no
\* step of the same run of the program, a request handler's included, asks
\* anything or changes config.json.
C31_PromptsBeforeListen ==
  /\ [][Len(boot'.asked) > Len(boot.asked) =>
          ~\E i \in DOMAIN boot'.calls : boot'.calls[i] = "app.listen"]_vars
  /\ [][Called("app.listen") /\ boot'.calls # <<>> =>
          /\ boot'.asked = boot.asked
          /\ boot'.writes = boot.writes
          /\ configFile' = configFile]_vars

\* the listener is open after the credentials, the save confirmation and the
\* custom port have all been asked for
C31_Witness ==
  /\ boot.pc = "listening"
  /\ \A question \in {"Username", "Save",
                       "Enter custom port number"} :
       \E i \in DOMAIN boot.asked : boot.asked[i] = question

\* the rows of Images that reference this file of the upload directory
Referencing(f) == {w \in rows : FullPath(w.image_path) = f}

\* no upload and no delete is in flight, and no removal of a file in the
\* catch block of an upload has failed
Quiescent ==
  \A q \in Requests :
    /\ q \in InFlight => q.kind \notin {"upload", "delete"}
    /\ q.pc # "threw"

\* C32, as stated: when no upload and no delete is in flight and every removal
\* attempted in a catch block succeeded, every file of the upload directory is
\* referenced by exactly one row of Images.
C32_AsStated ==
  Quiescent => \A f \in disk : Cardinality(Referencing(f)) = 1

\* C32, amended: provided that no filename was generated twice, when no upload
\* and no delete is in flight and every removal attempted in a catch block
\* succeeded, every file of the upload directory is referenced by exactly one
\* row of Images.
C32_NoOrphanFile ==
  (Quiescent /\ Distinct) => \A f \in disk : Cardinality(Referencing(f)) = 1

\* an upload whose INSERT failed has just been answered after removing its
\* file, nothing else is in flight, and a file and its row are there
C32_Witness ==
  /\ Quiescent /\ Distinct
  /\ InsertFailed(sent.req) /\ sent.status = 500
  /\ "unlinkSync" \in sent.req.fsops
  /\ disk # {} /\ rows # {}

\* C33: the row an upload inserted stores the path that resolves to the file
\* the upload wrote; and a step of a delete removes no row but that of its id,
\* adds none, removes no file but the one the path of that row resolves to,
\* adds none, and, provided that no filename was generated twice, leaves the
\* file of every other row as it is.
C33_DeleteFrame ==
  /\ [](\A q \in Requests : \A w \in rows :
          (q.kind = "upload" /\ q.rowId # 0 /\ w.id = q.rowId) =>
            /\ w.image_path = q.imagePath
            /\ FullPath(w.image_path) = q.file.path)
  /\ [][\A p \in InFlight :
          (p.kind = "delete" /\ CopiesIn(p, inflight') < CopiesIn(p, inflight)) =>
            /\ rows' \subseteq rows /\ disk' \subseteq disk
            /\ \A w \in rows \ rows' : w.id = p.id /\ p.pc = "delete_wait"
            /\ \A f \in disk \ disk' :
                 /\ p.pc = "lookup_ret" /\ p.qres.recordset[1].id = p.id
                 /\ f = FullPath(p.qres.recordset[1].image_path)
            /\ Distinct =>
                 \A w \in rows : w.id # p.id => FullPath(w.image_path) \notin disk \ disk']_vars

\* a delete that removed its file has been answered 200, and another row and
\* its file are still there
C33_Witness ==
  /\ Answered("delete", 200) /\ "unlinkSync" \in sent.req.fsops
  /\ Distinct
  /\ \E w \in rows : FullPath(w.image_path) \in disk

\* request p is a delete that removed its file and awaits its DELETE, and this
\* step answers it 500: the DELETE has failed
RowDeleteFailedStep(p) ==
  /\ p.kind = "delete" /\ p.pc = "delete_wait" /\ "unlinkSync" \in p.fsops
  /\ sent'.status = 500 /\ sent'.req = p
  /\ CopiesIn(p, inflight') < CopiesIn(p, inflight)

\* request p is a delete of an id whose file removal some delete has passed
\* before, its lookup found the row, and this step takes the handler on
RetryFileStep(p) ==
  /\ p.kind = "delete" /\ p.pc = "lookup_ret" /\ p.id \in delPassed
  /\ p.qres.ok /\ p.qres.recordset # <<>>
  /\ CopiesIn(p, inflight') < CopiesIn(p, inflight)

\* request p is a delete that awaits its DELETE, and this step answers it
\* after the store has executed the statement
RetryAnswered(p) ==
  /\ p.kind = "delete" /\ p.pc = "delete_wait"
  /\ sent'.status # 0 /\ sent'.req.id = p.id /\ sent'.req.qres.ok
  /\ CopiesIn(p, inflight') < CopiesIn(p, inflight)

\* C34, as stated: when a delete that removed the file is answered 500 for
\* its DELETE, the row of its id is in the table and the file of that row is
\* not on disk; a delete of that id that comes later finds the row, goes on to
\* its DELETE without failing on the file, and, when the store executes the
\* DELETE, is answered 200 with no row of that id and without the file.
C34_AsStated ==
  [][\A p \in InFlight :
       /\ RowDeleteFailedStep(p) =>
            /\ sent'.body.error = "Delete failed"
            /\ \E w \in rows' : w.id = p.id /\ w.image_path = p.imagePath
            /\ FullPath(p.imagePath) \notin disk'
       /\ RetryFileStep(p) =>
            /\ sent'.status = 0
            /\ \E q \in InFlight' : q.id = p.id /\ q.pc = "delete_wait"
       /\ RetryAnswered(p) =>
            /\ sent'.status = 200
            /\ \A w \in rows' : w.id # p.id
            /\ FullPath(p.imagePath) \notin disk']_vars

\* C34, amended: when a delete that removed the file is answered 500 for its
\* DELETE, it leaves the rows and the files as they are; provided that no
\* filename was generated twice, the file of its row is not on disk, and,
\* unless a delete of the same id has been answered 200 meanwhile, the row of
\* its id is in the table.  Provided that no filename was generated twice, a
\* delete of that id that comes later and finds the row goes on to its DELETE
\* without failing on the file, and, when the store executes the DELETE, is
\* answered 200 with no row of that id and without the file.
C34_RetryCompletes ==
  [][\A p \in InFlight :
       /\ RowDeleteFailedStep(p) =>
            /\ sent'.body.error = "Delete failed"
            /\ rows' = rows /\ disk' = disk
            /\ Distinct' => FullPath(p.imagePath) \notin disk'
            /\ (Distinct' /\ p.id \notin {d.id : d \in deleted}) =>
                 \E w \in rows' : w.id = p.id /\ w.image_path = p.imagePath
       /\ (RetryFileStep(p) /\ Distinct') =>
            /\ sent'.status = 0 /\ disk' = disk
            /\ \E q \in InFlight' :
                 /\ q.id = p.id /\ q.pc = "delete_wait"
                 /\ "unlinkSync" \notin q.fsops
       /\ RetryAnswered(p) =>
            /\ sent'.status = 200
            /\ \A w \in rows' : w.id # p.id
            /\ Distinct' => FullPath(p.imagePath) \notin disk']_vars

\* a delete has found the row of an id whose file an earlier delete removed:
\* that delete is over, the row is in the table and the file is gone
C34_Witness ==
  /\ alive /\ Distinct
  /\ \E p \in InFlight :
       /\ p.kind = "delete" /\ p.pc = "lookup_ret" /\ p.id \in delPassed
       /\ p.qres.ok /\ p.qres.recordset # <<>>
       /\ \E w \in rows : w.id = p.id /\ FullPath(w.image_path) \notin disk
       /\ \A q \in InFlight : q.kind = "delete" => q = p
       /\ CopiesIn(p, inflight) = 1

\* C35, as stated: when initializeServer has failed after sql.connect returned
\* the pool, the pool has been closed.
C35_AsStated ==
  (boot.pc = "failed" /\ Called("sql.connect") /\ boot.error # "connect")
    => boot.pool = "closed"

\* C36, as stated: when a run of the startup that resolved a configuration
\* which passed validateDbConfig ends with a config.json on disk that parses,
\* the file holds all four database fields; and the next run, which returns a
\* file that parses as it is, resolves a configuration with all four.
C36_AsStated ==
  /\ [][(boot'.pc = "start" /\ Called("sql.connect") /\ FileUsable) =>
          FieldsGiven(configFile.text)]_vars
  /\ [][(DbConfigResolved /\ FileUsable /\ FieldsGiven(configFile.text)) =>
          boot'.pc = "dbconfig" /\ FieldsGiven(boot'.dbConfig)]_vars

====
